---- MODULE Spec2Model ----
(***************************************************************************)
(* Model of ib/opt/future.py: Future (a blocking getter over callbacks     *)
(* delivered by a connection) and FutureFactory (construct, register,      *)
(* issue the request).                                                     *)
(*                                                                         *)
(* Threads: every Future has a caller thread that runs the factory and     *)
(* then the accessors; the connection's thread calls notify.  The          *)
(* accessor is split where another thread can interleave: the evaluation   *)
(* of the loop condition, the sleep, the autoclose step and the selection. *)
(*                                                                         *)
(* Time is an integer clock that advances on its own, whatever the         *)
(* threads are doing: sleep(d) lasts d or longer, and time may pass        *)
(* between any two statements of an accessor.                              *)
(***************************************************************************)
EXTENDS Integers, Sequences, FiniteSets, TLC

\* ---------------------------------------------------------------- bounds
MaxNow == 4            \* the clock stops here
MaxNotify == 2         \* notify calls per Future
MaxUnregister == 2     \* unregisterAll calls per Future

\* ---------------------------------------------------------------- inputs
Futures == {1, 2}      \* the Futures there can be
Running == {1}         \* the Futures whose caller thread runs
Types == {"t1", "t2"}
Msgs == {"X", "Y"}
Timeouts == {2}
MinWaits == {0, 1, 2, 3}
SleepTimes == {1, 2}
Filters == {"None", "OnlyX"}
Selectors == {"first", "last", "all"}
MsgTypesInputs ==
  { [isStr |-> TRUE,  str |-> "t1", list |-> << >>],
    [isStr |-> FALSE, str |-> "",   list |-> <<"t1", "t2">>] }

Unset == [timeout |-> 0, minwait |-> 0, sleeptime |-> 0, autoclose |-> FALSE,
          filter |-> "None"]

VARIABLES
  now,              \* time()
  pc,               \* pc[f]: where the caller thread of f is
  self,             \* self[f]: timeout, minwait, sleeptime, autoclose, filter
  messages,         \* messages[f]: self.messages
  msgTypes,         \* msgTypes[f]: the argument of create_filtered
  regIdx,           \* regIdx[f]: position of the for loop of create_filtered
  startTime,        \* startTime[f]: local of _get_select
  elapsedTime,      \* elapsedTime[f]: local of _get_select
  sleepStart,       \* sleepStart[f]: time() when the running sleep began
  select,           \* select[f]: the selector of the running accessor
  con,              \* the connection: listeners[t], the callbacks registered
                    \* for type t; unregisterAllCalls[f], the calls of
                    \* unregisterAll(f.notify) it has received
  keyvalues,        \* keyvalues[f]: the options create_filtered was given
  requested,        \* requested[f]: requestFct has been invoked
  notified,         \* notified[f]: every msg notify was called with, in order
  outcome,          \* outcome[f]: how the last accessor ended
  result,           \* result[f]: what the last accessor returned
  concluded,        \* concluded[f]: self.messages as the check that ended the
                    \* wait loop of the last get_all saw it
  pending           \* pending[f]: the messages of the notify calls that have
                    \* passed the filter test and have not appended yet

vars == <<now, pc, self, messages, msgTypes, regIdx, startTime, sleepStart,
          elapsedTime, select, con, keyvalues, requested, notified, outcome, result,
          concluded, pending>>

NoKeyvalues == [timeout |-> 0, minwait |-> 0, sleeptime |-> 0,
                autoclose |-> FALSE]

NoResult == [alias |-> FALSE, val |-> << >>]

\* ------------------------------------------------------- pure functions

\* Future.filter, or the filter create_filtered put in its place
filter(f, msg) ==
  IF self[f].filter = "OnlyX" THEN msg = "X" ELSE TRUE

\* notify that puts the message at the front
notify_Prepend(f, msg) ==
  IF ~filter(f, msg) THEN messages[f] ELSE <<msg>> \o messages[f]

\* notify without the filter test
notify_Unfiltered(f, msg) == Append(messages[f], msg)

\* notify that keeps only the latest message
notify_KeepLatest(f, msg) ==
  IF ~filter(f, msg) THEN messages[f] ELSE <<msg>>

\* the message list after notify(msg)
notify(f, msg) ==
  IF ~filter(f, msg) THEN messages[f] ELSE Append(messages[f], msg)

\* get with the sense of first_not_recent inverted
Selected_Swapped(sel, x) ==
  IF sel = "all" THEN x
  ELSE IF x = << >> THEN <<"IndexError">>
  ELSE IF sel = "first" THEN <<x[Len(x)]>> ELSE <<x[1]>>

\* an append that loses the message when another notify is under way
appendMsg_LostUpdate(f, msg) ==
  IF Len(pending[f]) > 1 THEN messages[f] ELSE Append(messages[f], msg)

\* line 49: self.messages.append(msg), one indivisible operation on the list
appendMsg(f, msg) == Append(messages[f], msg)

\* the lambdas of get (first_not_recent True / False) and get_all
Selected(sel, x) ==
  IF sel = "all" THEN x
  ELSE IF x = << >> THEN <<"IndexError">>
  ELSE IF sel = "first" THEN <<x[1]>> ELSE <<x[Len(x)]>>

\* the loop of create_filtered stopping after the first identifier
MsgTypeList_FirstOnly(mt) == IF mt.isStr THEN <<mt.str>> ELSE <<Head(mt.list)>>

\* msgTypes if type(msgTypes) != str else [msgTypes]
MsgTypeList(mt) == IF mt.isStr THEN <<mt.str>> ELSE mt.list

\* con.register(callback, t)
register(c, f, t) == [c EXCEPT !.listeners[t] = @ \cup {f}]

\* con.unregisterAll(callback)
unregisterAll(c, f) ==
  [listeners |-> [t \in Types |-> c.listeners[t] \ {f}],
   unregisterAllCalls |-> [c.unregisterAllCalls EXCEPT ![f] = @ + 1]]

\* close that calls unregisterAll twice
close_Twice(c, f) == unregisterAll(unregisterAll(c, f), f)

\* close that removes the callback from one type only
close_FirstTypeOnly(c, f) ==
  [listeners |-> [t \in Types |->
                    IF t = "t1" THEN c.listeners[t] \ {f} ELSE c.listeners[t]],
   unregisterAllCalls |-> [c.unregisterAllCalls EXCEPT ![f] = @ + 1]]

\* close that empties the registration table
close_Everyone(c, f) ==
  [listeners |-> [t \in Types |-> {}],
   unregisterAllCalls |-> [c.unregisterAllCalls EXCEPT ![f] = @ + 1]]

\* Future.close
close(c, f) == unregisterAll(c, f)

\* the autoclose test inverted
AfterAutoClose_Inverted(c, f) == IF ~self[f].autoclose THEN close(c, f) ELSE c

\* lines 81-82: if self.autoclose: self.close()
AfterAutoClose(c, f) == IF self[f].autoclose THEN close(c, f) ELSE c

\* the assert letting minwait = timeout through
AssertOK_Inclusive(to, mw) == mw <= to

\* line 34: the condition of the assert of Future.__init__
AssertOK(to, mw) == mw < to

\* the timeout test failing already at elapsedTime = timeout
TimedOut_Inclusive(f) == elapsedTime[f] >= self[f].timeout

\* the timeout test one poll interval late
TimedOut_Late(f) == elapsedTime[f] > self[f].timeout + self[f].sleeptime

\* line 77: the timeout test
TimedOut(f) == elapsedTime[f] > self[f].timeout

\* the loop condition with "and" for "or"
Waiting_And(f) == messages[f] = << >> /\ elapsedTime[f] < self[f].minwait

\* the loop condition without the settle window
Waiting_NoSettle(f) == messages[f] = << >>

\* the condition of the while loop of _get_select
Waiting(f) == messages[f] = << >> \/ elapsedTime[f] < self[f].minwait

\* the earliest time() at which the running sleep of f can end
WakeTime(f) == sleepStart[f] + self[f].sleeptime

Registered(f) == \E t \in Types : f \in con.listeners[t]

\* ---------------------------------------------------------------- Init
Init ==
  /\ now = 0
  /\ pc = [f \in Futures |-> "new"]
  /\ self = [f \in Futures |-> Unset]
  /\ messages = [f \in Futures |-> << >>]
  /\ msgTypes = [f \in Futures |-> [isStr |-> FALSE, str |-> "", list |-> << >>]]
  /\ regIdx = [f \in Futures |-> 0]
  /\ startTime = [f \in Futures |-> 0]
  /\ sleepStart = [f \in Futures |-> 0]
  /\ elapsedTime = [f \in Futures |-> 0]
  /\ select = [f \in Futures |-> "all"]
  /\ con = [listeners |-> [t \in Types |-> {}],
            unregisterAllCalls |-> [f \in Futures |-> 0]]
  /\ keyvalues = [f \in Futures |-> NoKeyvalues]
  /\ requested = [f \in Futures |-> FALSE]
  /\ notified = [f \in Futures |-> << >>]
  /\ outcome = [f \in Futures |-> "none"]
  /\ result = [f \in Futures |-> NoResult]
  /\ concluded = [f \in Futures |-> << >>]
  /\ pending = [f \in Futures |-> << >>]

\* ------------------------------------------------------------- factory

\* create_filtered, lines 118-121: Future(self.con, **keyvalues), name, filter.
\* A failing assert in Future.__init__ ends the call.
Construct(f) ==
  /\ pc[f] = "new"
  /\ \E to \in Timeouts, mw \in MinWaits, st \in SleepTimes,
        ac \in BOOLEAN, fl \in Filters, mt \in MsgTypesInputs :
       /\ keyvalues' = [keyvalues EXCEPT ![f] =
            [timeout |-> to, minwait |-> mw, sleeptime |-> st,
             autoclose |-> ac]]
       /\ IF ~AssertOK(to, mw)
          THEN /\ pc' = [pc EXCEPT ![f] = "AssertionError"]
               /\ UNCHANGED <<self, msgTypes, regIdx>>
          ELSE /\ pc' = [pc EXCEPT ![f] = "register"]
               /\ self' = [self EXCEPT ![f] =
                    [timeout |-> to, minwait |-> mw, sleeptime |-> st,
                     autoclose |-> ac, filter |-> fl]]
               /\ msgTypes' = [msgTypes EXCEPT ![f] = mt]
               /\ regIdx' = [regIdx EXCEPT ![f] = 1]
  /\ UNCHANGED <<now, messages, startTime, sleepStart, elapsedTime, select, con,
                 requested, notified, outcome, result>>
  /\ UNCHANGED <<concluded, pending>>

\* create_filtered, lines 122-123: one iteration of the for loop
Register(f) ==
  /\ pc[f] = "register"
  /\ regIdx[f] <= Len(MsgTypeList(msgTypes[f]))
  /\ con' = register(con, f, MsgTypeList(msgTypes[f])[regIdx[f]])
  /\ regIdx' = [regIdx EXCEPT ![f] = @ + 1]
  /\ UNCHANGED <<now, pc, self, messages, msgTypes, startTime, sleepStart, elapsedTime,
                 select, keyvalues, requested, notified, outcome, result>>
  /\ UNCHANGED <<concluded, pending>>

\* Request that deregisters the callback when requestFct raises
Request_Rollback(f) ==
  /\ pc[f] = "register"
  /\ regIdx[f] > Len(MsgTypeList(msgTypes[f]))
  /\ requested' = [requested EXCEPT ![f] = TRUE]
  /\ \E ok \in BOOLEAN :
       /\ pc' = [pc EXCEPT ![f] = IF ok THEN "idle" ELSE "RequestError"]
       /\ con' = IF ok THEN con ELSE close(con, f)
  /\ UNCHANGED <<now, self, messages, msgTypes, regIdx, startTime, sleepStart,
                 elapsedTime, select, keyvalues, notified, outcome,
                 result, concluded, pending>>

\* create_filtered, lines 124-125: requestFct(*reqValues) returns or raises
Request(f) ==
  /\ pc[f] = "register"
  /\ regIdx[f] > Len(MsgTypeList(msgTypes[f]))
  /\ requested' = [requested EXCEPT ![f] = TRUE]
  /\ \E ok \in BOOLEAN :
       pc' = [pc EXCEPT ![f] = IF ok THEN "idle" ELSE "RequestError"]
  /\ UNCHANGED <<now, self, messages, msgTypes, regIdx, startTime, sleepStart,
                 elapsedTime, select, con, keyvalues, notified, outcome,
                 result>>
  /\ UNCHANGED <<concluded, pending>>

\* ------------------------------------------------------------ producer

ConstructedAt(f) == pc[f] \notin {"new", "AssertionError"}

\* Notify kept out while the caller sleeps between two polls
Notify_LockedInSleep(f, msg) ==
  /\ pc[f] # "sleep"
  /\ ConstructedAt(f)
  /\ Len(notified[f]) < MaxNotify
  /\ messages' = [messages EXCEPT ![f] = notify(f, msg)]
  /\ notified' = [notified EXCEPT ![f] = Append(@, msg)]
  /\ UNCHANGED <<now, pc, self, msgTypes, regIdx, startTime, sleepStart, elapsedTime,
                 select, con, keyvalues, requested, outcome, result,
                 concluded, pending>>

\* f.notify(msg) called directly, or by a dispatch that was under way
Notify(f, msg) ==
  /\ ConstructedAt(f)
  /\ Len(notified[f]) < MaxNotify
  /\ messages' = [messages EXCEPT ![f] = notify(f, msg)]
  /\ notified' = [notified EXCEPT ![f] = Append(@, msg)]
  /\ UNCHANGED <<now, pc, self, msgTypes, regIdx, startTime, sleepStart, elapsedTime,
                 select, con, keyvalues, requested, outcome, result>>
  /\ UNCHANGED <<concluded, pending>>

\* the connection delivers msg of type t to every callback registered for t
Dispatch(t, msg) ==
  /\ con.listeners[t] # {}
  /\ \A f \in con.listeners[t] : Len(notified[f]) < MaxNotify
  /\ messages' = [f \in Futures |->
                    IF f \in con.listeners[t] THEN notify(f, msg)
                    ELSE messages[f]]
  /\ notified' = [f \in Futures |->
                    IF f \in con.listeners[t] THEN Append(notified[f], msg)
                    ELSE notified[f]]
  /\ UNCHANGED <<now, pc, self, msgTypes, regIdx, startTime, sleepStart, elapsedTime,
                 select, con, keyvalues, requested, outcome, result>>
  /\ UNCHANGED <<concluded, pending>>

\* lines 47-48 of a notify call of one of several producer threads: the
\* filter test; a rejected message ends the call
NotifyBegin(f, msg) ==
  /\ ConstructedAt(f)
  /\ Len(notified[f]) < MaxNotify
  /\ notified' = [notified EXCEPT ![f] = Append(@, msg)]
  /\ pending' = [pending EXCEPT ![f] =
                   IF filter(f, msg) THEN Append(@, msg) ELSE @]
  /\ UNCHANGED <<now, pc, self, messages, msgTypes, regIdx, startTime, sleepStart,
                 elapsedTime, select, con, keyvalues, requested, outcome,
                 result, concluded>>

\* line 49 of the i-th notify call under way
NotifyAppend(f, i) ==
  /\ i \in 1..Len(pending[f])
  /\ messages' = [messages EXCEPT ![f] = appendMsg(f, pending[f][i])]
  /\ pending' = [pending EXCEPT ![f] =
                   SubSeq(@, 1, i - 1) \o SubSeq(@, i + 1, Len(@))]
  /\ UNCHANGED <<now, pc, self, msgTypes, regIdx, startTime, sleepStart, elapsedTime,
                 select, con, keyvalues, requested, notified, outcome, result,
                 concluded>>

\* ------------------------------------------------------------ accessors

InAccessor(f) == pc[f] \in {"check", "sleep", "autoclose", "select"}

\* get_first / get_last / get_all, up to line 75
Call(f, sel) ==
  /\ pc[f] = "idle"
  /\ now + self[f].timeout + self[f].sleeptime <= MaxNow
  /\ self[f].autoclose => con.unregisterAllCalls[f] < MaxUnregister
  /\ pc' = [pc EXCEPT ![f] = "check"]
  /\ select' = [select EXCEPT ![f] = sel]
  /\ startTime' = [startTime EXCEPT ![f] = now]
  /\ elapsedTime' = [elapsedTime EXCEPT ![f] = 0]
  /\ outcome' = [outcome EXCEPT ![f] = "none"]
  /\ result' = [result EXCEPT ![f] = NoResult]
  /\ UNCHANGED <<now, self, messages, msgTypes, regIdx, con, keyvalues,
                 requested, notified>>
  /\ concluded' = [concluded EXCEPT ![f] = << >>]
  /\ UNCHANGED <<sleepStart, pending>>

\* Check that tests the timeout before the loop condition
Check_TimeoutFirst(f) ==
  /\ pc[f] = "check"
  /\ IF TimedOut(f)
     THEN /\ pc' = [pc EXCEPT ![f] = "idle"]
          /\ outcome' = [outcome EXCEPT ![f] = "TimeoutException"]
     ELSE IF Waiting(f)
          THEN /\ pc' = [pc EXCEPT ![f] = "sleep"]
               /\ UNCHANGED outcome
          ELSE /\ pc' = [pc EXCEPT ![f] = "autoclose"]
               /\ UNCHANGED outcome
  /\ concluded' = [concluded EXCEPT ![f] =
                      IF Waiting(f) \/ select[f] # "all" THEN @
                      ELSE messages[f]]
  /\ UNCHANGED <<now, self, messages, msgTypes, regIdx, startTime,
                 elapsedTime, select, con, keyvalues, requested, notified,
                 result, pending>>
  /\ sleepStart' = [sleepStart EXCEPT ![f] =
                       IF pc'[f] = "sleep" THEN now ELSE @]

\* Check that closes the Future before it raises TimeoutException
Check_CloseOnTimeout(f) ==
  /\ pc[f] = "check"
  /\ IF Waiting(f)
     THEN IF TimedOut(f)
          THEN /\ pc' = [pc EXCEPT ![f] = "idle"]
               /\ outcome' = [outcome EXCEPT ![f] = "TimeoutException"]
               /\ con' = close(con, f)
          ELSE /\ pc' = [pc EXCEPT ![f] = "sleep"]
               /\ UNCHANGED <<outcome, con>>
     ELSE /\ pc' = [pc EXCEPT ![f] = "autoclose"]
          /\ UNCHANGED <<outcome, con>>
  /\ UNCHANGED <<now, self, messages, msgTypes, regIdx, startTime,
                 elapsedTime, select, keyvalues, requested, notified, result>>
  /\ concluded' = [concluded EXCEPT ![f] =
                      IF Waiting(f) \/ select[f] # "all" THEN @
                      ELSE messages[f]]
  /\ UNCHANGED pending
  /\ sleepStart' = [sleepStart EXCEPT ![f] =
                       IF pc'[f] = "sleep" THEN now ELSE @]

\* lines 76-79: the loop condition, then the timeout test, then the sleep
\* begins
Check(f) ==
  /\ pc[f] = "check"
  /\ IF Waiting(f)
     THEN IF TimedOut(f)
          THEN /\ pc' = [pc EXCEPT ![f] = "idle"]
               /\ outcome' = [outcome EXCEPT ![f] = "TimeoutException"]
          ELSE /\ pc' = [pc EXCEPT ![f] = "sleep"]
               /\ UNCHANGED outcome
     ELSE /\ pc' = [pc EXCEPT ![f] = "autoclose"]
          /\ UNCHANGED outcome
  /\ UNCHANGED <<now, self, messages, msgTypes, regIdx, startTime,
                 elapsedTime, select, con, keyvalues, requested, notified,
                 result>>
  /\ concluded' = [concluded EXCEPT ![f] =
                      IF Waiting(f) \/ select[f] # "all" THEN @
                      ELSE messages[f]]
  /\ UNCHANGED pending
  /\ sleepStart' = [sleepStart EXCEPT ![f] =
                       IF pc'[f] = "sleep" THEN now ELSE @]

\* lines 79-80: sleep(self.sleeptime) ends, after sleeptime or later;
\* elapsedTime = time() - startTime
Wake(f) ==
  /\ pc[f] = "sleep"
  /\ now >= WakeTime(f)
  /\ elapsedTime' = [elapsedTime EXCEPT ![f] = now - startTime[f]]
  /\ sleepStart' = [sleepStart EXCEPT ![f] = 0]
  /\ pc' = [pc EXCEPT ![f] = "check"]
  /\ UNCHANGED <<now, self, messages, msgTypes, regIdx, startTime, select,
                 con, keyvalues, requested, notified, outcome, result>>
  /\ UNCHANGED <<concluded, pending>>

\* lines 81-82: if self.autoclose: self.close()
AutoClose(f) ==
  /\ pc[f] = "autoclose"
  /\ con' = AfterAutoClose(con, f)
  /\ pc' = [pc EXCEPT ![f] = "select"]
  /\ UNCHANGED <<now, self, messages, msgTypes, regIdx, startTime, sleepStart,
                 elapsedTime, select, keyvalues, requested, notified, outcome,
                 result>>
  /\ UNCHANGED <<concluded, pending>>

\* line 83: return select(self.messages); get_all returns the list itself
Return(f) ==
  /\ pc[f] = "select"
  /\ result' = [result EXCEPT ![f] =
       [alias |-> select[f] = "all", val |-> Selected(select[f], messages[f])]]
  /\ outcome' = [outcome EXCEPT ![f] = "value"]
  /\ pc' = [pc EXCEPT ![f] = "idle"]
  /\ UNCHANGED <<now, self, messages, msgTypes, regIdx, startTime, sleepStart,
                 elapsedTime, select, con, keyvalues, requested, notified>>
  /\ UNCHANGED <<concluded, pending>>

\* f.close() called by whoever holds f
Close(f) ==
  /\ pc[f] \in {"idle", "check", "sleep", "autoclose", "select"}
  /\ con.unregisterAllCalls[f] < MaxUnregister
  /\ con' = close(con, f)
  /\ UNCHANGED <<now, pc, self, messages, msgTypes, regIdx, startTime, sleepStart,
                 elapsedTime, select, keyvalues, requested, notified, outcome,
                 result>>
  /\ UNCHANGED <<concluded, pending>>

\* time() advances, whatever the threads are doing.  The clock stops at
\* MaxNow, and leaves a thread that may still go to sleep the time to
\* finish that sleep before it stops.
Tick ==
  /\ now < MaxNow
  /\ \A f \in Futures :
       (pc[f] = "check" /\ ~TimedOut(f))
         => now + 1 + self[f].sleeptime <= MaxNow
  /\ now' = now + 1
  /\ UNCHANGED <<pc, self, messages, msgTypes, regIdx, startTime, sleepStart,
                 elapsedTime, select, con, keyvalues, requested, notified,
                 outcome, result>>
  /\ UNCHANGED <<concluded, pending>>

Next ==
  \/ \E f \in Running : Construct(f)
  \/ \E f \in Running : Register(f)
  \/ \E f \in Running : Request(f)
  \/ \E f \in Running, msg \in Msgs : Notify(f, msg)
  \/ \E t \in Types, msg \in Msgs : Dispatch(t, msg)
  \/ \E f \in Running, sel \in Selectors : Call(f, sel)
  \/ \E f \in Running : Check(f)
  \/ \E f \in Running : Wake(f)
  \/ \E f \in Running : AutoClose(f)
  \/ \E f \in Running : Return(f)
  \/ \E f \in Running : Close(f)
  \/ Tick

\* Two listeners on one connection.  Both are created with timeout 2,
\* minwait 1, sleeptime 2 and the default filter; the connection delivers at
\* most MaxNotify messages in all, and close is called between accessors on
\* a listener that has not been closed.
PairInputs(f) ==
  /\ pc[f] = "register"
  /\ self[f].minwait = 1
  /\ self[f].sleeptime = 2
  /\ self[f].filter = "None"

PairBudget == Len(notified[1]) + Len(notified[2]) <= MaxNotify

NextPair ==
  \/ \E f \in Futures : Construct(f) /\ PairInputs(f)'
  \/ \E f \in Futures : Register(f)
  \/ \E f \in Futures : Request(f)
  \/ \E f \in Futures : Notify(f, "X") /\ PairBudget'
  \/ \E t \in Types : Dispatch(t, "X") /\ PairBudget'
  \/ \E f \in Futures : Call(f, "all")
  \/ \E f \in Futures : Check(f)
  \/ \E f \in Futures : Wake(f)
  \/ \E f \in Futures : AutoClose(f)
  \/ \E f \in Futures : Return(f)
  \/ \E f \in Futures :
       Close(f) /\ pc[f] = "idle" /\ con.unregisterAllCalls[f] = 0
  \/ Tick

SpecPair == Init /\ [][NextPair]_vars

Spec == Init /\ [][Next]_vars

\* Several producer threads call notify of one listener, each call in two
\* steps, while the caller runs accessors.  The listener is created for "t1"
\* with minwait 1 and sleeptime 1; notified records the calls in the order
\* of their filter tests.
ThreadsInputs(f) ==
  /\ pc[f] = "register"
  /\ self[f].minwait = 1
  /\ self[f].sleeptime = 1
  /\ msgTypes[f].isStr

NextThreads ==
  \/ \E f \in Running : Construct(f) /\ ThreadsInputs(f)'
  \/ \E f \in Running : Register(f)
  \/ \E f \in Running : Request(f)
  \/ \E f \in Running, msg \in Msgs : NotifyBegin(f, msg)
  \/ \E f \in Running, i \in 1..MaxNotify : NotifyAppend(f, i)
  \/ \E f \in Running, sel \in Selectors : Call(f, sel)
  \/ \E f \in Running : Check(f)
  \/ \E f \in Running : Wake(f)
  \/ \E f \in Running : AutoClose(f)
  \/ \E f \in Running : Return(f)
  \/ \E f \in Running : Close(f)
  \/ Tick

SpecThreads == Init /\ [][NextThreads]_vars

\* the caller threads and the clock keep going
FairSpec ==
  /\ Spec
  /\ WF_vars(Tick)
  /\ \A f \in Running :
       WF_vars(Check(f) \/ Wake(f) \/ AutoClose(f) \/ Return(f))

TypeOK ==
  /\ now \in 0..MaxNow
  /\ \A f \in Futures : Len(notified[f]) <= MaxNotify

\* ================================================================ claims

RECURSIVE Accepted(_, _)
\* the messages of s that pass the filter of f, in the order of s
Accepted(f, s) ==
  IF s = << >> THEN << >>
  ELSE IF filter(f, Head(s)) THEN <<Head(s)>> \o Accepted(f, Tail(s))
  ELSE Accepted(f, Tail(s))

IsPrefix(a, b) == Len(a) <= Len(b) /\ SubSeq(b, 1, Len(a)) = a

\* C1: after every step the buffer is the accepted subsequence of the notify
\* calls made so far, in call order; get_all returns exactly that sequence;
\* a notify whose message the filter rejects changes nothing but the record
\* of the call.
C1_GetAllReturnsAccepted ==
  [][\A f \in Futures :
       /\ messages'[f] = Accepted(f, notified'[f])
       /\ (Return(f) /\ select[f] = "all")
            => result'[f].val = Accepted(f, notified[f])
       /\ \A msg \in Msgs :
            (Notify(f, msg) /\ ~filter(f, msg))
              => UNCHANGED <<now, pc, self, messages, msgTypes, regIdx,
                             startTime, sleepStart, elapsedTime, select, con, keyvalues,
                             requested, outcome, result>>]_vars

\* get_all has returned ("X") after notify was called with "Y" and then "X"
C1_Witness ==
  /\ outcome[1] = "value"
  /\ result[1].alias
  /\ notified[1] = <<"Y", "X">>
  /\ result[1].val = <<"X">>
  /\ messages[1] = <<"X">>

\* C2 as stated: an accessor that never sees a message does not return a
\* value and ends with TimeoutException; the exception is raised more than
\* timeout and at most timeout + sleeptime after the call.
C2_Original ==
  /\ [](\A f \in Futures : outcome[f] = "value" => messages[f] # << >>)
  /\ [][\A f \in Futures :
          (outcome[f] # "TimeoutException" /\ outcome'[f] = "TimeoutException")
            => /\ now - startTime[f] > self[f].timeout
               /\ now - startTime[f] <= self[f].timeout + self[f].sleeptime]_vars
  /\ \A f \in Futures :
       InAccessor(f) ~> (outcome[f] = "TimeoutException" \/ messages[f] # << >>)

\* C2 amended: an accessor that never sees a message does not return a value
\* and ends with TimeoutException.  The exception is raised by the first poll
\* whose elapsed time is greater than timeout, so more than timeout after the
\* call; the poll before it was made at most timeout after the call, and a
\* poll made exactly sleeptime after that one is at most timeout + sleeptime
\* after the call.  There is no upper bound beyond that: a sleep may last
\* longer than sleeptime, and the exception can then come later than
\* timeout + sleeptime.
C2_TimeoutWhenNothingArrives ==
  /\ [](\A f \in Futures : outcome[f] = "value" => messages[f] # << >>)
  /\ [](\A f \in Futures : pc[f] = "sleep" => elapsedTime[f] <= self[f].timeout)
  /\ [][\A f \in Futures :
          /\ (outcome[f] # "TimeoutException" /\ outcome'[f] = "TimeoutException")
               => /\ elapsedTime[f] > self[f].timeout
                  /\ now - startTime[f] >= elapsedTime[f]
          /\ (Check(f) /\ messages[f] = << >>
                /\ elapsedTime[f] > self[f].timeout)
               => outcome'[f] = "TimeoutException"
          /\ (Wake(f) /\ now = startTime[f] + elapsedTime[f] + self[f].sleeptime)
               => elapsedTime'[f] <= self[f].timeout + self[f].sleeptime]_vars
  /\ \A f \in Futures :
       InAccessor(f) ~> (outcome[f] = "TimeoutException" \/ messages[f] # << >>)

\* an accessor has timed out later than timeout + sleeptime after its call,
\* although notify was called: every message was rejected by the filter
C2_Witness ==
  /\ outcome[1] = "TimeoutException"
  /\ messages[1] = << >>
  /\ notified[1] # << >>
  /\ elapsedTime[1] > self[1].timeout + self[1].sleeptime

\* C3: an accessor that has left the wait loop, or has returned a value, has
\* been running for at least minwait since its call.
C3_SettleWindow ==
  \A f \in Futures :
    (pc[f] \in {"autoclose", "select"} \/ outcome[f] = "value")
      => /\ now - startTime[f] >= self[f].minwait
         /\ elapsedTime[f] >= self[f].minwait

\* an accessor called on a non-empty buffer sleeps: the first check, at
\* elapsed time 0, did not let it through
C3_Witness ==
  /\ pc[1] = "sleep"
  /\ elapsedTime[1] = 0
  /\ now = startTime[1]
  /\ messages[1] # << >>
  /\ self[1].minwait > 0

\* C4 as stated: a check at elapsed time exactly timeout with the settle
\* condition unsatisfied raises TimeoutException, and a check at elapsed time
\* exactly minwait with a non-empty buffer leaves the loop.
C4_Original ==
  [][\A f \in Futures :
       Check(f) =>
         /\ (elapsedTime[f] = self[f].timeout /\ Waiting(f))
              => outcome'[f] = "TimeoutException"
         /\ (elapsedTime[f] = self[f].minwait /\ messages[f] # << >>)
              => pc'[f] = "autoclose"]_vars

\* C4 amended: a check at elapsed time exactly timeout with the settle
\* condition unsatisfied does not fail, it starts one more sleep;
\* TimeoutException is raised only by a check whose elapsed time is greater
\* than timeout; a check at elapsed time exactly minwait with a non-empty
\* buffer leaves the loop.
C4_Boundary ==
  [][\A f \in Futures :
       Check(f) =>
         /\ (elapsedTime[f] = self[f].timeout /\ Waiting(f))
              => (pc'[f] = "sleep" /\ outcome'[f] = outcome[f])
         /\ outcome'[f] = "TimeoutException"
              => (elapsedTime[f] > self[f].timeout /\ Waiting(f))
         /\ (elapsedTime[f] = self[f].minwait /\ messages[f] # << >>)
              => pc'[f] = "autoclose"]_vars

\* an accessor is asleep again after a check made exactly timeout after the
\* call on an empty buffer
C4_Witness ==
  /\ pc[1] = "sleep"
  /\ elapsedTime[1] = self[1].timeout
  /\ now = startTime[1] + self[1].timeout
  /\ messages[1] = << >>

\* C5 as stated: unregisterAll is never invoked twice for a listener, and a
\* listener whose creation ended with a failing request has been deregistered
\* once.
C5_Original ==
  \A f \in Futures :
    /\ con.unregisterAllCalls[f] <= 1
    /\ pc[f] = "RequestError" => con.unregisterAllCalls[f] = 1

\* C5 amended: unregisterAll is invoked once by every close() and once by
\* every accessor that leaves the wait loop with autoclose true, and by no
\* other step; a timeout and a failing request invoke it zero times.
C5_UnregisterPerClose ==
  [][\A f \in Futures :
       LET closing == Close(f) \/ (AutoClose(f) /\ self[f].autoclose)
       IN  /\ closing =>
                con'.unregisterAllCalls[f] = con.unregisterAllCalls[f] + 1
           /\ ~closing =>
                con'.unregisterAllCalls[f] = con.unregisterAllCalls[f]
           /\ pc'[f] = "RequestError" => con'.unregisterAllCalls[f] = 0]_vars

\* an autoclosing accessor has returned and unregisterAll has been invoked
\* twice for the listener
C5_Witness ==
  /\ outcome[1] = "value"
  /\ self[1].autoclose
  /\ con.unregisterAllCalls[1] = 2

\* C6: the step that raises TimeoutException changes neither the connection
\* nor any buffer nor the Future's fields, and leaves the caller free to call
\* an accessor or close again.
C6_TimeoutLeavesListener ==
  [][\A f \in Futures :
       (pc[f] = "check" /\ outcome'[f] = "TimeoutException")
         => /\ con' = con
            /\ \A t \in Types : f \in con.listeners[t] <=> f \in con'.listeners[t]
            /\ messages' = messages
            /\ notified' = notified
            /\ self' = self
            /\ pc'[f] = "idle"]_vars

\* an accessor has timed out and the callback is still registered under both
\* types of msgTypes
C6_Witness ==
  /\ outcome[1] = "TimeoutException"
  /\ pc[1] = "idle"
  /\ \A t \in Types : 1 \in con.listeners[t]
  /\ con.unregisterAllCalls[1] = 0

\* the steps of an accessor of f
AccessorStep(f) ==
  \/ \E sel \in Selectors : Call(f, sel)
  \/ Check(f)
  \/ Wake(f)
  \/ AutoClose(f)
  \/ Return(f)

\* C7: with autoclose true the callback is registered under no type when an
\* accessor returns a value; with autoclose false no step of an accessor
\* changes the connection.
C7_AutocloseFrame ==
  [][\A f \in Futures :
       /\ (Return(f) /\ self[f].autoclose) => ~Registered(f)'
       /\ (outcome'[f] = "value" /\ self'[f].autoclose) => ~Registered(f)'
       /\ (AccessorStep(f) /\ ~self[f].autoclose) => con' = con]_vars

\* an autoclosing accessor has returned for a listener created for two types,
\* and the callback is registered under neither
C7_Witness ==
  /\ outcome[1] = "value"
  /\ self[1].autoclose
  /\ msgTypes[1].list = <<"t1", "t2">>
  /\ con.unregisterAllCalls[1] = 1
  /\ ~Registered(1)

\* C8: close leaves the callback registered under no type and the buffers
\* alone; a close of an already closed listener changes no registration; once
\* closed, the callback is never registered again.
C8_CloseIdempotent ==
  [][\A f \in Futures :
       /\ Close(f) => (~Registered(f)' /\ messages' = messages)
       /\ (Close(f) /\ con.unregisterAllCalls[f] > 0)
            => con'.listeners = con.listeners
       /\ con.unregisterAllCalls[f] > 0 => ~Registered(f)']_vars

\* close has been called twice on a listener that holds a message
C8_Witness ==
  /\ ~self[1].autoclose
  /\ con.unregisterAllCalls[1] = 2
  /\ self[1].timeout > 0
  /\ msgTypes[1].list = <<"t1", "t2">>
  /\ messages[1] # << >>
  /\ ~Registered(1)

\* C9 as stated: once a listener has been closed its buffer never changes.
C9_Original ==
  [][\A f \in Futures :
       con.unregisterAllCalls[f] > 0 => messages'[f] = messages[f]]_vars

\* C9 amended: once a listener has been closed, no dispatch of the connection
\* changes its buffer and the buffer only grows at its end, so get_all still
\* returns what was delivered before close; a notify called after close
\* still appends.
C9_ClosedBufferGrowsOnly ==
  [][\A f \in Futures :
       con.unregisterAllCalls[f] > 0
         => /\ IsPrefix(messages[f], messages'[f])
            /\ (\E t \in Types, msg \in Msgs : Dispatch(t, msg))
                 => messages'[f] = messages[f]
            /\ (Return(f) /\ select[f] = "all")
                 => result'[f].val = messages[f]]_vars

\* get_all has returned and closed the listener, and the buffer has grown
\* since
C9_Witness ==
  /\ outcome[1] = "value"
  /\ self[1].autoclose
  /\ result[1].alias
  /\ con.unregisterAllCalls[1] > 0
  /\ Len(messages[1]) > Len(result[1].val)

\* C10: a create_filtered whose options have minwait >= timeout ends in the
\* failing assert, and only such a call does; nothing has then been
\* registered, no request has been issued and no Future exists.
C10_AssertBeforeRegister ==
  \A f \in Futures :
    pc[f] # "new" =>
      /\ keyvalues[f].minwait >= keyvalues[f].timeout
           <=> pc[f] = "AssertionError"
      /\ pc[f] = "AssertionError"
           => /\ ~Registered(f)
              /\ ~requested[f]
              /\ con.unregisterAllCalls[f] = 0
              /\ self[f] = Unset
              /\ messages[f] = << >>

\* a create_filtered with minwait = timeout has failed
C10_Witness ==
  /\ pc[1] = "AssertionError"
  /\ keyvalues[1].minwait = keyvalues[1].timeout
  /\ keyvalues[1].timeout > 0

\* the identifiers create_filtered was given: msgTypes itself when it is a
\* string, its elements otherwise
Identifiers(mt) ==
  IF mt.isStr THEN {mt.str} ELSE {mt.list[i] : i \in 1..Len(mt.list)}

\* C11: from the moment requestFct is invoked until the first unregisterAll,
\* the callback is registered under every identifier of msgTypes, and every
\* dispatch for one of them calls notify with the message exactly once.
C11_RegisteredBeforeRequest ==
  [][\A f \in Futures :
       (requested'[f] /\ con'.unregisterAllCalls[f] = 0)
         => /\ \A t \in Identifiers(msgTypes'[f]) : f \in con'.listeners[t]
            /\ \A t \in Identifiers(msgTypes[f]), msg \in Msgs :
                 (requested[f] /\ Dispatch(t, msg))
                   => /\ notified'[f] = Append(notified[f], msg)
                      /\ messages'[f] = notify(f, msg)]_vars

\* the request of a listener created for a list of two types has been issued,
\* the listener is open and has been offered two messages
C11_Witness ==
  /\ requested[1]
  /\ pc[1] = "idle"
  /\ ~msgTypes[1].isStr
  /\ con.unregisterAllCalls[1] = 0
  /\ \A t \in Types : 1 \in con.listeners[t]
  /\ Len(notified[1]) = 2

\* C12: a create_filtered whose request raised has returned no Future and
\* has deregistered nothing: the callback stays registered under every
\* identifier of msgTypes and every dispatch for one of them still reaches
\* notify.
C12_FailedRequestKeepsRegistration ==
  [][\A f \in Futures :
       pc'[f] = "RequestError"
         => /\ requested'[f]
            /\ con'.unregisterAllCalls[f] = 0
            /\ \A t \in Identifiers(msgTypes'[f]) : f \in con'.listeners[t]
            /\ \A t \in Identifiers(msgTypes[f]), msg \in Msgs :
                 (pc[f] = "RequestError" /\ Dispatch(t, msg))
                   => messages'[f] = notify(f, msg)]_vars

\* the request of a listener has raised, and the listener is registered and
\* holds two messages
C12_Witness ==
  /\ pc[1] = "RequestError"
  /\ Registered(1)
  /\ Len(messages[1]) = 2

\* C13: get_first returns the first and get_last the last element of the
\* buffer get_all would return in the same step.
C13_FirstAndLast ==
  [][\A f \in Futures :
       Return(f) =>
         LET all == Accepted(f, notified[f])
         IN  /\ select[f] = "first" => result'[f].val = <<all[1]>>
             /\ select[f] = "last" => result'[f].val = <<all[Len(all)]>>
             /\ select[f] = "all" => result'[f].val = all]_vars

\* get_first has returned "X" from the buffer ("X", "Y")
C13_Witness ==
  /\ outcome[1] = "value"
  /\ select[1] = "first"
  /\ messages[1] = <<"X", "Y">>
  /\ result[1].val = <<"X">>
  /\ ~result[1].alias

\* C14: a dispatch changes the buffer of no listener that is not registered
\* for its type, and no accessor step and no close of one listener changes
\* the registrations, the unregisterAll count or the buffer of another.
C14_ListenersIndependent ==
  [][/\ \A t \in Types, msg \in Msgs, f \in Futures :
          (Dispatch(t, msg) /\ f \notin con.listeners[t])
            => messages'[f] = messages[f]
     /\ \A f \in Futures : \A g \in Futures \ {f} :
          (Close(f) \/ AccessorStep(f))
            => /\ messages'[g] = messages[g]
               /\ \A t \in Types : g \in con.listeners[t] <=> g \in con'.listeners[t]
               /\ con'.unregisterAllCalls[g] = con.unregisterAllCalls[g]]_vars

\* listener 1 has timed out and been closed while listener 2, created for
\* both types, is still registered under both and holds a message listener 1
\* never got
C14_Witness ==
  /\ outcome[1] = "TimeoutException"
  /\ con.unregisterAllCalls[1] > 0
  /\ \A t \in Types : 2 \in con.listeners[t]
  /\ messages[1] = << >>
  /\ messages[2] # << >>

\* what the list get_all returned holds now: the list is self.messages itself
ReturnedNow(f) == IF result[f].alias THEN messages[f] ELSE result[f].val

\* C15 as stated: what get_all returned is the buffer as the check that ended
\* the wait loop saw it, when it is returned and at any time after.
C15_Original ==
  \A f \in Futures :
    (outcome[f] = "value" /\ select[f] = "all")
      => /\ result[f].val = concluded[f]
         /\ ReturnedNow(f) = concluded[f]

\* how many times msg occurs in s
Count(msg, s) == Cardinality({i \in 1..Len(s) : s[i] = msg})

\* C16: whatever the interleaving of the notify calls, every message that
\* passed the filter is either in the buffer once or in a call that has not
\* appended yet, and the buffer holds nothing else.
C16_NoLostAppend ==
  \A f \in Futures : \A msg \in Msgs :
    /\ Count(msg, messages[f]) + Count(msg, pending[f])
         = Count(msg, Accepted(f, notified[f]))
    /\ Count(msg, pending[f]) > 0 => filter(f, msg)

\* two notify calls overlapped: "X" passed the filter first and "Y" appended
\* first, while an accessor was between polls
C16_Witness ==
  /\ notified[1] = <<"X", "Y">>
  /\ messages[1] = <<"Y", "X">>
  /\ pending[1] = << >>
  /\ pc[1] = "sleep"

\* C17: in every step the buffer of every listener keeps what it held, in
\* the same order, at its front: no accessor, timeout or close removes or
\* reorders a message.
C17_AppendOnly ==
  [][\A f \in Futures : IsPrefix(messages[f], messages'[f])]_vars

\* get_first has returned, close has been called twice, and the buffer still
\* holds its two messages
C17_Witness ==
  /\ outcome[1] = "value"
  /\ select[1] = "first"
  /\ con.unregisterAllCalls[1] = 2
  /\ Len(messages[1]) = 2

\* C18: notify can be called on a constructed Future and runs to its end in
\* every state, wherever the caller thread is (MaxNotify bounds the calls
\* made).
C18_NotifyNeverBlocked ==
  \A f \in Running : \A msg \in Msgs :
    (ConstructedAt(f) /\ Len(notified[f]) < MaxNotify)
      => ENABLED Notify(f, msg)

\* the caller sleeps between two polls, a message is buffered and notify can
\* be called again
C18_Witness ==
  /\ pc[1] = "sleep"
  /\ now < WakeTime(1)
  /\ elapsedTime[1] > 0
  /\ notified[1] = <<"X">>
  /\ messages[1] = <<"X">>
  /\ ENABLED Notify(1, "Y")

\* C19: a check that sees a non-empty buffer never raises TimeoutException,
\* and an accessor that runs while the buffer is non-empty ends by returning
\* a value.
C19_NoTimeoutOnNonEmpty ==
  /\ [][\A f \in Futures :
          (pc[f] = "check" /\ messages[f] # << >>)
            => outcome'[f] # "TimeoutException"]_vars
  /\ \A f \in Futures :
       (InAccessor(f) /\ messages[f] # << >>) ~> outcome[f] = "value"

\* an accessor has returned a value at a poll made later than timeout after
\* its call: the message came during the last sleep
C19_Witness ==
  /\ outcome[1] = "value"
  /\ elapsedTime[1] > self[1].timeout
  /\ Len(messages[1]) = 1

\* C20: the selection is applied to a non-empty buffer only, so get_first
\* and get_last return an element, get_all returns a non-empty list, and an
\* accessor ends with a value or with TimeoutException.
C20_SelectOnNonEmpty ==
  \A f \in Futures :
    /\ pc[f] \in {"autoclose", "select"} => messages[f] # << >>
    /\ outcome[f] = "value"
         => /\ result[f].val # << >>
            /\ result[f].val # <<"IndexError">>
    /\ outcome[f] \in {"none", "value", "TimeoutException"}

\* get_last has returned "Y" from ("X", "Y") on a listener that was closed
\* by hand
C20_Witness ==
  /\ outcome[1] = "value"
  /\ select[1] = "last"
  /\ ~self[1].autoclose
  /\ con.unregisterAllCalls[1] = 1
  /\ messages[1] = <<"X", "Y">>
  /\ result[1].val = <<"Y">>

====
